---- MODULE Spec2Model ----
(***************************************************************************)
(* Snapshot ledger and compensating rollback of things3-cli.               *)
(*                                                                         *)
(* The model covers the snapshot store (src/db/snapshot-repo.ts and the    *)
(* schema of src/db/migrations.ts), the snapshot manager                   *)
(* (src/services/snapshot-manager.ts), the rollback command                *)
(* (src/commands/rollback.ts), the dispatch path through ThingsClient and  *)
(* executeUrl, and the sliding-window rate limiter                         *)
(* (src/core/rate-limiter.ts).                                             *)
(***************************************************************************)
EXTENDS Integers, Sequences, FiniteSets, TLC

\* ------------------------------------------------------------------------
\* Bounds of the model
\* ------------------------------------------------------------------------

\* number of snapshot ids generateSnapshotId hands out in one behaviour
MaxSnapshots == 2
\* largest number of child rows the database holds, over the three child tables
MaxRows == 2
\* the clock runs over 0..MaxTime
MaxTime == 1
\* number of rollbackCommand invocations that can be in progress at once
NumInvocations == 2

\* ------------------------------------------------------------------------
\* Values
\* ------------------------------------------------------------------------

\* SQL NULL / JavaScript null or undefined handed to a column or a result
NULL == "NULL"
\* the JavaScript value undefined held by an object property
UNDEF == "undefined"

SnapIds == 1..MaxSnapshots

SnapshotStatus == {"active", "rolled-back", "partial-rollback", "expired"}

\* Previous-state objects (Record<string, unknown>) are functions from
\* property names to JavaScript values. The callers of the model hand over
\* one with a title only, and one whose optional notes are undefined and
\* whose tags are the comma-separated string of the command line.

\* items of AddSnapshotData / BulkSnapshotData.createdItems; TypeScript types
\* are erased at run time, so a title can arrive undefined
CreatedInputs ==
    { [thingsId |-> "things-123", itemType |-> "to-do", title |-> "New Task"],
      [thingsId |-> "pending", itemType |-> "to-do", title |-> NULL] }

\* items of UpdateSnapshotData / BulkSnapshotData.modifiedItems: each item of
\* Things has its own previous state
ModifiedInputs ==
    { [thingsId |-> "mod-1", itemType |-> "to-do",
       previousState |-> [title |-> "Old"], modifiedFields |-> {"title"}],
      [thingsId |-> "mod-2", itemType |-> "to-do",
       previousState |-> [tags |-> "work", notes |-> UNDEF],
       modifiedFields |-> {"tags", "notes"}] }

StatusInputs ==
    { [thingsId |-> "status-1", itemType |-> "to-do",
       previousStatus |-> "open", newStatus |-> "completed"],
      [thingsId |-> "status-2", itemType |-> "to-do",
       previousStatus |-> "open", newStatus |-> "canceled"],
      [thingsId |-> "status-3", itemType |-> "to-do",
       previousStatus |-> "completed", newStatus |-> "open"] }

SeqsUpTo(S, n) == UNION { [1..k -> S] : k \in 0..n }

\* BulkSnapshotData with at most MaxRows items over the three categories
BulkInputs ==
    { d \in [createdItems : SeqsUpTo(CreatedInputs, MaxRows),
             modifiedItems : SeqsUpTo(ModifiedInputs, MaxRows),
             statusChanges : SeqsUpTo(StatusInputs, MaxRows)] :
        Len(d.createdItems) + Len(d.modifiedItems) + Len(d.statusChanges) <= MaxRows }

\* ------------------------------------------------------------------------
\* State
\* ------------------------------------------------------------------------

VARIABLES
    now,        \* Date.now() / datetime('now')
    db,         \* the four tables of the SQLite database
    nextId,     \* the next id generateSnapshotId returns
    ret,        \* outcome of the last store or manager call
    authToken,  \* whether getAuthToken() finds a token
    calls,      \* RateLimiter.calls of the process-wide limiter
    rb          \* the asynchronous calls in progress (rollbackCommand,
                \* acquireAsync), one record each

vars == <<now, db, nextId, ret, authToken, calls, rb>>

Procs == 1..NumInvocations

\* ------------------------------------------------------------------------
\* JSON
\* ------------------------------------------------------------------------

\* the order in which the properties of an object are serialized
FieldOrder == <<"title", "notes", "tags">>

RECURSIVE stringifyFrom(_, _)
stringifyFrom(obj, k) ==
    IF k > Len(FieldOrder) THEN <<>>
    ELSE LET f == FieldOrder[k]
         IN  IF f \in DOMAIN obj /\ obj[f] # UNDEF
             THEN <<[key |-> f, value |-> obj[f]]>> \o stringifyFrom(obj, k + 1)
             ELSE stringifyFrom(obj, k + 1)

\* JSON.stringify of an object: the text lists the members whose value is
\* not undefined; a property holding undefined is left out of the text
JSONstringify(obj) == stringifyFrom(obj, 1)

\* JSON.parse of such a text: an object with one property per member
JSONparse(text) ==
    [f \in { text[k].key : k \in 1..Len(text) } |->
        text[CHOOSE k \in 1..Len(text) : text[k].key = f].value]

\* ------------------------------------------------------------------------
\* Nullable values: null is the empty sequence, a value v is <<v>>
\* ------------------------------------------------------------------------

None == <<>>
Some(v) == <<v>>

\* ------------------------------------------------------------------------
\* Snapshot store (SnapshotRepository over the schema of the migrations)
\* ------------------------------------------------------------------------

\* the database right after runMigrations: four empty tables
EmptyDb ==
    [snapshots |-> <<>>,
     snapshot_created |-> <<>>,
     snapshot_modified |-> <<>>,
     snapshot_status |-> <<>>]

\* ids of the rows of table snapshots
Ids(d) == DOMAIN d.snapshots

\* the rows of a child table that belong to one snapshot, in rowid order
RowsOf(table, id) == SelectSeq(table, LAMBDA r : r.snapshot_id = id)

\* INSERT INTO snapshots (id, description, operation_type, command): the
\* columns created_at, rolled_back_at and status take their defaults
createSnapshot(d, id, operationType, t) ==
    [d EXCEPT !.snapshots =
        [i \in Ids(d) \cup {id} |->
            IF i = id
            THEN [operation_type |-> operationType,
                  created_at |-> t,
                  rolled_back_at |-> None,
                  status |-> "active"]
            ELSE d.snapshots[i]]]

\* InsertFails with foreign keys not enforced
InsertFails_NoForeignKey(d, snapshotId, values) ==
    \E k \in 1..Len(values) : values[k] = NULL

\* an INSERT into a child table fails when the parent row is missing
\* (REFERENCES snapshots(id), PRAGMA foreign_keys = ON) or when a NOT NULL
\* column is handed NULL
InsertFails(d, snapshotId, values) ==
    \/ snapshotId \notin Ids(d)
    \/ \E k \in 1..Len(values) : values[k] = NULL

\* the outcome of a store call: the database after it and whether it threw
Done(d) == [db |-> d, threw |-> FALSE]
Threw(d) == [db |-> d, threw |-> TRUE]

addSnapshotCreated(d, snapshotId, item) ==
    IF InsertFails(d, snapshotId, <<item.thingsId, item.itemType, item.title>>)
    THEN Threw(d)
    ELSE Done([d EXCEPT !.snapshot_created =
                 Append(@, [snapshot_id |-> snapshotId,
                            things_id |-> item.thingsId,
                            item_type |-> item.itemType,
                            title |-> item.title])])

addSnapshotModified(d, snapshotId, item) ==
    IF InsertFails(d, snapshotId, <<item.thingsId, item.itemType>>)
    THEN Threw(d)
    ELSE Done([d EXCEPT !.snapshot_modified =
                 Append(@, [snapshot_id |-> snapshotId,
                            things_id |-> item.thingsId,
                            item_type |-> item.itemType,
                            previous_state |-> JSONstringify(item.previousState),
                            modified_fields |-> item.modifiedFields])])

addSnapshotStatus(d, snapshotId, item) ==
    IF InsertFails(d, snapshotId,
                   <<item.thingsId, item.itemType, item.previousStatus, item.newStatus>>)
    THEN Threw(d)
    ELSE Done([d EXCEPT !.snapshot_status =
                 Append(@, [snapshot_id |-> snapshotId,
                            things_id |-> item.thingsId,
                            item_type |-> item.itemType,
                            previous_status |-> item.previousStatus,
                            new_status |-> item.newStatus])])

\* SELECT ... FROM snapshots WHERE id = ?: the row, or null
getSnapshot(d, id) ==
    IF id \in Ids(d) THEN Some([id |-> id] @@ d.snapshots[id]) ELSE None

\* the parent row with its three child collections, or null
getSnapshotDetails(d, id) ==
    IF getSnapshot(d, id) = None THEN None
    ELSE Some(getSnapshot(d, id)[1] @@
              [createdItems |-> RowsOf(d.snapshot_created, id),
               modifiedItems |-> RowsOf(d.snapshot_modified, id),
               statusChanges |-> RowsOf(d.snapshot_status, id)])

\* updateSnapshotStatus that stamps rolled_back_at but never clears it
updateSnapshotStatus_KeepsStamp(d, id, status, t) ==
    IF id \notin Ids(d) THEN d
    ELSE [d EXCEPT !.snapshots[id].status = status,
                   !.snapshots[id].rolled_back_at =
                       IF status \in {"rolled-back", "partial-rollback"}
                       THEN Some(t) ELSE @]

\* UPDATE snapshots SET status = ?, rolled_back_at = ? WHERE id = ?
updateSnapshotStatus(d, id, status, t) ==
    IF id \notin Ids(d) THEN d
    ELSE [d EXCEPT !.snapshots[id].status = status,
                   !.snapshots[id].rolled_back_at =
                       IF status \in {"rolled-back", "partial-rollback"}
                       THEN Some(t) ELSE None]

\* DeleteRows without the cascade: the child rows stay behind
DeleteRows_NoCascade(d, gone) ==
    [d EXCEPT !.snapshots = [i \in Ids(d) \ gone |-> d.snapshots[i]]]

\* DELETE of parent rows: ON DELETE CASCADE removes their child rows
DeleteRows(d, gone) ==
    [snapshots |-> [i \in Ids(d) \ gone |-> d.snapshots[i]],
     snapshot_created |->
        SelectSeq(d.snapshot_created, LAMBDA r : r.snapshot_id \notin gone),
     snapshot_modified |->
        SelectSeq(d.snapshot_modified, LAMBDA r : r.snapshot_id \notin gone),
     snapshot_status |->
        SelectSeq(d.snapshot_status, LAMBDA r : r.snapshot_id \notin gone)]

\* DELETE FROM snapshots WHERE id = ?
deleteSnapshot(d, id) == DeleteRows(d, {id} \cap Ids(d))

\* purgeOldSnapshots that spares the old snapshots that were rolled back
purgeOldSnapshots_ActiveOnly(d, days, t) ==
    DeleteRows(d, { i \in Ids(d) : /\ d.snapshots[i].created_at < t - days
                                   /\ d.snapshots[i].status = "active" })

\* DELETE FROM snapshots WHERE created_at < datetime('now', '-<days> days')
purgeOldSnapshots(d, days, t) ==
    DeleteRows(d, { i \in Ids(d) : d.snapshots[i].created_at < t - days })

\* the limit listSnapshots uses when the caller gives none
DefaultLimit == 100

\* ORDER BY created_at DESC: created_at has a resolution of one clock unit
\* (datetime('now')), and SQL leaves the order of rows with equal created_at
\* open. SQLite reads the unfiltered query backwards through
\* idx_snapshots_created_at, which yields equal keys by descending rowid; the
\* filtered query goes through idx_snapshots_status and a sort, which keeps
\* equal keys in the order they were read, by ascending rowid. Ids are handed
\* out in insertion order, so they stand for the rowid here.
RowBefore(d, status, a, b) ==
    \/ d.snapshots[a].created_at > d.snapshots[b].created_at
    \/ /\ d.snapshots[a].created_at = d.snapshots[b].created_at
       /\ IF status = NULL THEN a > b ELSE a < b

\* SELECT ... [WHERE status = ?] ORDER BY created_at DESC LIMIT ? OFFSET ?
listSnapshots(d, status, limit, offset) ==
    LET found == { i \in Ids(d) : status = NULL \/ d.snapshots[i].status = status }
        rows == CHOOSE q \in [1..Cardinality(found) -> found] :
                    \A i, j \in 1..Cardinality(found) :
                        i < j => RowBefore(d, status, q[i], q[j])
        last == IF offset + limit < Len(rows) THEN offset + limit ELSE Len(rows)
    IN  [k \in 1..(IF last > offset THEN last - offset ELSE 0) |->
            getSnapshot(d, rows[offset + k])[1]]

\* ------------------------------------------------------------------------
\* Snapshot manager: creation
\* ------------------------------------------------------------------------

\* a for loop of child inserts: an insert that throws ends the loop and the
\* call, and leaves what was inserted before it
RECURSIVE insertAll(_, _, _, _, _)
insertAll(table, d, snapshotId, items, k) ==
    IF k > Len(items) THEN Done(d)
    ELSE LET r == CASE table = "created" -> addSnapshotCreated(d, snapshotId, items[k])
                    [] table = "modified" -> addSnapshotModified(d, snapshotId, items[k])
                    [] table = "status" -> addSnapshotStatus(d, snapshotId, items[k])
         IN  IF r.threw THEN r ELSE insertAll(table, r.db, snapshotId, items, k + 1)

createAddSnapshot(d, id, data, t) ==
    addSnapshotCreated(createSnapshot(d, id, "add", t), id, data)

createAddProjectSnapshot(d, id, data, t) ==
    addSnapshotCreated(createSnapshot(d, id, "add-project", t), id,
                       [data EXCEPT !.itemType = "project"])

createUpdateSnapshot(d, id, data, t) ==
    addSnapshotModified(createSnapshot(d, id, "update", t), id, data)

createStatusChangeSnapshot(d, id, data, t) ==
    LET operationType == IF data.newStatus = "completed" THEN "complete" ELSE "cancel"
    IN  addSnapshotStatus(createSnapshot(d, id, operationType, t), id, data)

createBulkSnapshot(d, id, data, t) ==
    LET c == insertAll("created", createSnapshot(d, id, "json", t), id,
                       data.createdItems, 1)
        m == IF c.threw THEN c
             ELSE insertAll("modified", c.db, id, data.modifiedItems, 1)
    IN  IF m.threw THEN m
        ELSE insertAll("status", m.db, id, data.statusChanges, 1)

\* ------------------------------------------------------------------------
\* Snapshot manager: rollback plan
\* ------------------------------------------------------------------------

\* one 'cancel' action per created item
cancelActions(rows) ==
    [k \in 1..Len(rows) |->
        [action |-> "cancel", thingsId |-> rows[k].things_id,
         itemType |-> rows[k].item_type, data |-> None]]

\* restoreActions that forgets to attach the previous state
restoreActions_NoData(rows) ==
    [k \in 1..Len(rows) |->
        [action |-> "restore", thingsId |-> rows[k].things_id,
         itemType |-> rows[k].item_type, data |-> None]]

\* one 'restore' action per modified item, carrying the parsed previous state
restoreActions(rows) ==
    [k \in 1..Len(rows) |->
        [action |-> "restore", thingsId |-> rows[k].things_id,
         itemType |-> rows[k].item_type,
         data |-> Some(JSONparse(rows[k].previous_state))]]

\* revertActions that plans a revert for a cancellation too
revertActions_All(rows, k) ==
    [j \in 1..(Len(rows) - k + 1) |->
        [action |-> "revert-status", thingsId |-> rows[k + j - 1].things_id,
         itemType |-> rows[k + j - 1].item_type,
         data |-> Some([previousStatus |-> rows[k + j - 1].previous_status])]]

\* one 'revert-status' action per status change that is not a cancellation
RECURSIVE revertActions(_, _)
revertActions(rows, k) ==
    IF k > Len(rows) THEN <<>>
    ELSE IF rows[k].new_status = "canceled" THEN revertActions(rows, k + 1)
    ELSE <<[action |-> "revert-status", thingsId |-> rows[k].things_id,
            itemType |-> rows[k].item_type,
            data |-> Some([previousStatus |-> rows[k].previous_status])]>>
         \o revertActions(rows, k + 1)

\* one warning per status change to 'canceled'
RECURSIVE cancelWarnings(_, _)
cancelWarnings(rows, k) ==
    IF k > Len(rows) THEN <<>>
    ELSE IF rows[k].new_status = "canceled"
    THEN <<[warning |-> "Cancellation is irreversible in Things.",
            thingsId |-> rows[k].things_id]>> \o cancelWarnings(rows, k + 1)
    ELSE cancelWarnings(rows, k + 1)

\* getRollbackPlan that lists the restores before the cancels
getRollbackPlan_RestoreFirst(d, snapshotId) ==
    LET details == getSnapshotDetails(d, snapshotId)
    IN  IF details = None THEN None
        ELSE IF details[1].status # "active" THEN None
        ELSE Some([snapshotId |-> details[1].id,
                   operationType |-> details[1].operation_type,
                   actions |-> restoreActions(details[1].modifiedItems)
                               \o cancelActions(details[1].createdItems)
                               \o revertActions(details[1].statusChanges, 1),
                   warnings |-> cancelWarnings(details[1].statusChanges, 1)])

\* getRollbackPlan without the check of the status
getRollbackPlan_IgnoreStatus(d, snapshotId) ==
    LET details == getSnapshotDetails(d, snapshotId)
    IN  IF details = None THEN None
        ELSE Some([snapshotId |-> details[1].id,
                   operationType |-> details[1].operation_type,
                   actions |-> cancelActions(details[1].createdItems)
                               \o restoreActions(details[1].modifiedItems)
                               \o revertActions(details[1].statusChanges, 1),
                   warnings |-> cancelWarnings(details[1].statusChanges, 1)])

\* null when the snapshot is missing or not active, otherwise the plan
getRollbackPlan(d, snapshotId) ==
    LET details == getSnapshotDetails(d, snapshotId)
    IN  IF details = None THEN None
        ELSE IF details[1].status # "active" THEN None
        ELSE Some([snapshotId |-> details[1].id,
                   operationType |-> details[1].operation_type,
                   actions |-> cancelActions(details[1].createdItems)
                               \o restoreActions(details[1].modifiedItems)
                               \o revertActions(details[1].statusChanges, 1),
                   warnings |-> cancelWarnings(details[1].statusChanges, 1)])

\* markRolledBack passes its arguments to the store's status update
markRolledBack(d, snapshotId, status, t) ==
    updateSnapshotStatus(d, snapshotId, status, t)

\* ------------------------------------------------------------------------
\* Rate limiter
\* ------------------------------------------------------------------------

\* the process-wide limiter is new RateLimiter(MaxCalls, WindowMs); the
\* model scales the budget and the window down to clock ticks
MaxCalls == 1
WindowMs == 1

\* a limiter built as new RateLimiter(TestMaxCalls, TestWindowMs), driven
\* through its own methods while the clock runs up to MaxClock
TestMaxCalls == 2
TestWindowMs == 2
MaxClock == 6

\* cleanup that keeps a timestamp for one instant too long
cleanup_Inclusive(c, t, windowMs) ==
    SelectSeq(c, LAMBDA timestamp : timestamp >= t - windowMs)

\* drop the timestamps that left the window
cleanup(c, t, windowMs) == SelectSeq(c, LAMBDA timestamp : timestamp > t - windowMs)

\* canAcquire that still answers true at the budget
canAcquire_OffByOne(c, t, maxCalls, windowMs) ==
    Len(cleanup(c, t, windowMs)) <= maxCalls

canAcquire(c, t, maxCalls, windowMs) == Len(cleanup(c, t, windowMs)) < maxCalls

\* acquire below the budget records the call
acquire(c, t, windowMs) == Append(cleanup(c, t, windowMs), t)

\* acquire that records the call it refuses
RateLimiter_acquire_RecordsRefused(c, t, maxCalls, windowMs) ==
    [calls |-> Append(cleanup(c, t, windowMs), t),
     threw |-> Len(cleanup(c, t, windowMs)) >= maxCalls]

\* RateLimiter.acquire as a whole: at the budget it throws after the
\* cleanup, below the budget it records the call
RateLimiter_acquire(c, t, maxCalls, windowMs) ==
    IF Len(cleanup(c, t, windowMs)) >= maxCalls
    THEN [calls |-> cleanup(c, t, windowMs), threw |-> TRUE]
    ELSE [calls |-> acquire(c, t, windowMs), threw |-> FALSE]

\* getWaitTime that reports the whole window whenever the budget is used up
getWaitTime_WholeWindow(c, t, maxCalls, windowMs) ==
    IF Len(cleanup(c, t, windowMs)) < maxCalls THEN 0 ELSE windowMs

\* the time until the oldest recorded call leaves the window, 0 below the
\* budget; an oldestCall that is undefined or 0 is falsy and gives 0
getWaitTime(c, t, maxCalls, windowMs) ==
    LET kept == cleanup(c, t, windowMs)
    IN  IF Len(kept) < maxCalls THEN 0
        ELSE IF kept = <<>> \/ kept[1] = 0 THEN 0
        ELSE IF kept[1] + windowMs - t > 0 THEN kept[1] + windowMs - t ELSE 0

getCount(c, t, windowMs) == Len(cleanup(c, t, windowMs))

getRemainingCapacity(c, t, maxCalls, windowMs) ==
    IF maxCalls - Len(cleanup(c, t, windowMs)) > 0
    THEN maxCalls - Len(cleanup(c, t, windowMs)) ELSE 0

\* ------------------------------------------------------------------------
\* URL executor
\* ------------------------------------------------------------------------

\* what executeUrl returns, with the limiter it leaves behind and whether
\* Bun.spawn started the external command
ExecutionResult(c, spawned, success, error, dryRun) ==
    [calls |-> c, spawned |-> spawned,
     result |-> [success |-> success, error |-> error, dryRun |-> dryRun]]

\* executeUrl that returns from a dry run before it consults the limiter
executeUrl_DryRunFirst(c, t, valid, dryRun, skipRateLimit, exit) ==
    IF ~valid
    THEN ExecutionResult(c, FALSE, FALSE, "Invalid URL scheme", FALSE)
    ELSE IF dryRun THEN ExecutionResult(c, FALSE, TRUE, UNDEF, TRUE)
    ELSE IF ~skipRateLimit /\ ~canAcquire(c, t, MaxCalls, WindowMs)
    THEN ExecutionResult(cleanup(c, t, WindowMs), FALSE, FALSE, "Rate limit exceeded", FALSE)
    ELSE LET after == IF skipRateLimit THEN c ELSE acquire(c, t, WindowMs)
         IN  IF exit = "threw"
             THEN ExecutionResult(after, FALSE, FALSE, "thrown", FALSE)
             ELSE IF exit = "failed"
             THEN ExecutionResult(after, TRUE, FALSE, "Command failed", FALSE)
             ELSE ExecutionResult(after, TRUE, TRUE, UNDEF, FALSE)

\* executeUrl(url, {dryRun, skipRateLimit}) against the process-wide limiter:
\* valid says whether url starts with 'things:///', exit is how the open
\* command ends ("ok", "failed") or that Bun.spawn itself threw ("threw")
executeUrl(c, t, valid, dryRun, skipRateLimit, exit) ==
    IF ~valid
    THEN ExecutionResult(c, FALSE, FALSE, "Invalid URL scheme", FALSE)
    ELSE IF ~skipRateLimit /\ ~canAcquire(c, t, MaxCalls, WindowMs)
    THEN ExecutionResult(cleanup(c, t, WindowMs), FALSE, FALSE, "Rate limit exceeded", FALSE)
    ELSE LET after == IF skipRateLimit THEN c ELSE acquire(c, t, WindowMs)
         IN  IF dryRun THEN ExecutionResult(after, FALSE, TRUE, UNDEF, TRUE)
             ELSE IF exit = "threw"
             THEN ExecutionResult(after, FALSE, FALSE, "thrown", FALSE)
             ELSE IF exit = "failed"
             THEN ExecutionResult(after, TRUE, FALSE, "Command failed", FALSE)
             ELSE ExecutionResult(after, TRUE, TRUE, UNDEF, FALSE)

\* ------------------------------------------------------------------------
\* Store and manager calls
\* ------------------------------------------------------------------------

\* what the last call of the ledger API did: its name, whether it threw and,
\* for a DELETE, the number of parent rows the statement changed
NoRet == [op |-> "none", threw |-> FALSE, changes |-> 0]
Ret(op, threw, changes) == [op |-> op, threw |-> threw, changes |-> changes]

TotalRows(d) ==
    Len(d.snapshot_created) + Len(d.snapshot_modified) + Len(d.snapshot_status)

\* no rollbackCommand is between its first and its last step
Quiescent == \A p \in Procs : rb[p].pc \in {"idle", "done"}

\* a manager create call: the id is generated, the call returns or throws
Create(op, r, items) ==
    /\ nextId <= MaxSnapshots
    /\ TotalRows(db) + items <= MaxRows
    /\ db' = r.db
    /\ ret' = Ret(op, r.threw, 0)
    /\ nextId' = nextId + 1
    /\ UNCHANGED <<now, authToken, calls, rb>>

CreateAddSnapshot ==
    \E data \in CreatedInputs :
        Create("createAddSnapshot", createAddSnapshot(db, nextId, data, now), 1)

CreateAddProjectSnapshot ==
    \E data \in CreatedInputs :
        Create("createAddProjectSnapshot",
               createAddProjectSnapshot(db, nextId, data, now), 1)

CreateUpdateSnapshot ==
    \E data \in ModifiedInputs :
        Create("createUpdateSnapshot", createUpdateSnapshot(db, nextId, data, now), 1)

CreateStatusChangeSnapshot ==
    \E data \in StatusInputs :
        Create("createStatusChangeSnapshot",
               createStatusChangeSnapshot(db, nextId, data, now), 1)

CreateBulkSnapshot ==
    \E data \in BulkInputs :
        Create("createBulkSnapshot", createBulkSnapshot(db, nextId, data, now),
               Len(data.createdItems) + Len(data.modifiedItems) + Len(data.statusChanges))

\* a direct child insert of the repository, for any id a caller may hold
AddChild(op, r) ==
    /\ TotalRows(db) < MaxRows
    /\ db' = r.db
    /\ ret' = Ret(op, r.threw, 0)
    /\ UNCHANGED <<now, nextId, authToken, calls, rb>>

AddSnapshotCreated ==
    \E snapshotId \in SnapIds, item \in CreatedInputs :
        AddChild("addSnapshotCreated", addSnapshotCreated(db, snapshotId, item))

AddSnapshotModified ==
    \E snapshotId \in SnapIds, item \in ModifiedInputs :
        AddChild("addSnapshotModified", addSnapshotModified(db, snapshotId, item))

AddSnapshotStatus ==
    \E snapshotId \in SnapIds, item \in StatusInputs :
        AddChild("addSnapshotStatus", addSnapshotStatus(db, snapshotId, item))

UpdateSnapshotStatus ==
    \E id \in SnapIds, status \in SnapshotStatus :
        /\ db' = updateSnapshotStatus(db, id, status, now)
        /\ ret' = Ret("updateSnapshotStatus", FALSE, 0)
        /\ UNCHANGED <<now, nextId, authToken, calls, rb>>

MarkRolledBack ==
    \E id \in SnapIds, status \in {"rolled-back", "partial-rollback"} :
        /\ db' = markRolledBack(db, id, status, now)
        /\ ret' = Ret("markRolledBack", FALSE, 0)
        /\ UNCHANGED <<now, nextId, authToken, calls, rb>>

\* result.changes counts the parent rows the statement deleted
DeleteSnapshot ==
    \E id \in SnapIds :
        /\ db' = deleteSnapshot(db, id)
        /\ ret' = Ret("deleteSnapshot", FALSE,
                      Cardinality(Ids(db) \ Ids(deleteSnapshot(db, id))))
        /\ UNCHANGED <<now, nextId, authToken, calls, rb>>

PurgeOldSnapshots ==
    \E days \in 0..MaxTime :
        /\ db' = purgeOldSnapshots(db, days, now)
        /\ ret' = Ret("purgeOldSnapshots", FALSE,
                      Cardinality(Ids(db) \ Ids(purgeOldSnapshots(db, days, now))))
        /\ UNCHANGED <<now, nextId, authToken, calls, rb>>

\* the outcome of a call that reads: its arguments and the value returned
Read(op, args, result) ==
    [op |-> op, threw |-> FALSE, changes |-> 0, args |-> args, result |-> result]

\* a getRollbackPlan that marks the snapshot it has planned for
GetRollbackPlan_Consumes ==
    \E snapshotId \in SnapIds :
        /\ ret' = Read("getRollbackPlan", [snapshotId |-> snapshotId],
                       getRollbackPlan(db, snapshotId))
        /\ db' = updateSnapshotStatus(db, snapshotId, "rolled-back", now)
        /\ UNCHANGED <<now, nextId, authToken, calls, rb>>

\* getRollbackPlan runs SELECT statements only
GetRollbackPlan ==
    \E snapshotId \in SnapIds :
        /\ ret' = Read("getRollbackPlan", [snapshotId |-> snapshotId],
                       getRollbackPlan(db, snapshotId))
        /\ UNCHANGED <<now, db, nextId, authToken, calls, rb>>

\* listSnapshots with or without a status filter, a limit and an offset
ListSnapshots ==
    \E status \in {NULL} \cup SnapshotStatus, limit \in {1, DefaultLimit},
       offset \in {0, 1} :
        /\ ret' = Read("listSnapshots",
                       [status |-> status, limit |-> limit, offset |-> offset],
                       listSnapshots(db, status, limit, offset))
        /\ UNCHANGED <<now, db, nextId, authToken, calls, rb>>

\* a method of the limiter under test: every method starts with cleanup();
\* the value returned is held under the name of what it is
LimiterCall(op, threw, result, kept) ==
    /\ calls' = kept
    /\ ret' = [op |-> op, threw |-> threw, changes |-> 0, args |-> <<>>,
               result |-> result]
    /\ UNCHANGED <<now, db, nextId, authToken, rb>>

Acquire ==
    LET r == RateLimiter_acquire(calls, now, TestMaxCalls, TestWindowMs)
    IN  LimiterCall("acquire", r.threw,
                    [error |-> IF r.threw THEN "Rate limit exceeded" ELSE UNDEF],
                    r.calls)

CanAcquire ==
    LimiterCall("canAcquire", FALSE,
                [allowed |-> canAcquire(calls, now, TestMaxCalls, TestWindowMs)],
                cleanup(calls, now, TestWindowMs))

GetWaitTime ==
    LimiterCall("getWaitTime", FALSE,
                [ms |-> getWaitTime(calls, now, TestMaxCalls, TestWindowMs)],
                cleanup(calls, now, TestWindowMs))

GetCount ==
    LimiterCall("getCount", FALSE, [count |-> getCount(calls, now, TestWindowMs)],
                cleanup(calls, now, TestWindowMs))

GetRemainingCapacity ==
    LimiterCall("getRemainingCapacity", FALSE,
                [remaining |->
                    getRemainingCapacity(calls, now, TestMaxCalls, TestWindowMs)],
                cleanup(calls, now, TestWindowMs))

\* the clock of the limiter under test advances
Advance ==
    /\ now < MaxClock
    /\ now' = now + 1
    /\ UNCHANGED <<db, nextId, ret, authToken, calls, rb>>

\* an acquireAsync call that has not started
IdleAcquire == [pc |-> "idle", wakeAt |-> 0, threw |-> FALSE, recorded |-> 0]

\* acquireAsync after its wait, or without one: acquire() records the call
\* or throws, and the promise settles accordingly
acquireAsync_settle(c, t, maxCalls, windowMs) ==
    LET r == RateLimiter_acquire(c, t, maxCalls, windowMs)
    IN  [calls |-> r.calls,
         call |-> [pc |-> "done", wakeAt |-> 0, threw |-> r.threw,
                   recorded |-> Len(r.calls) - Len(cleanup(c, t, windowMs))]]

\* acquireAsync up to its await: the wait time is read once; with none to
\* wait the call acquires at once, otherwise a timer is set for it
AcquireAsync(p) ==
    /\ rb[p].pc \in {"idle", "done"}
    /\ LET waitTime == getWaitTime(calls, now, TestMaxCalls, TestWindowMs)
           r == acquireAsync_settle(calls, now, TestMaxCalls, TestWindowMs)
       IN  IF waitTime > 0
           THEN /\ rb' = [rb EXCEPT ![p] = [IdleAcquire EXCEPT !.pc = "sleeping",
                                                             !.wakeAt = now + waitTime]]
                /\ calls' = cleanup(calls, now, TestWindowMs)
           ELSE /\ rb' = [rb EXCEPT ![p] = r.call]
                /\ calls' = r.calls
    /\ UNCHANGED <<now, db, nextId, ret, authToken>>

\* the timer of a sleeping acquireAsync fires, on time or late, and the
\* call goes on to acquire()
AcquireAsyncWake(p) ==
    /\ rb[p].pc = "sleeping"
    /\ now >= rb[p].wakeAt
    /\ LET r == acquireAsync_settle(calls, now, TestMaxCalls, TestWindowMs)
       IN  /\ rb' = [rb EXCEPT ![p] = r.call]
           /\ calls' = r.calls
    /\ UNCHANGED <<now, db, nextId, ret, authToken>>

\* a command of the CLI, or any other caller, runs executeUrl to its end
ExecuteUrl ==
    \E valid \in BOOLEAN, dryRun \in BOOLEAN, skipRateLimit \in BOOLEAN,
       exit \in {"ok", "failed", "threw"} :
        LET r == executeUrl(calls, now, valid, dryRun, skipRateLimit, exit)
        IN  /\ calls' = r.calls
            /\ ret' = [op |-> "executeUrl", threw |-> FALSE, changes |-> 0,
                       args |-> [valid |-> valid, dryRun |-> dryRun,
                                 skipRateLimit |-> skipRateLimit],
                       result |-> r.result, spawned |-> r.spawned]
            /\ UNCHANGED <<now, db, nextId, authToken, rb>>

\* time passes
Tick ==
    /\ now < MaxTime
    /\ now' = now + 1
    /\ UNCHANGED <<db, nextId, ret, authToken, calls, rb>>

\* ------------------------------------------------------------------------
\* Rollback command
\* ------------------------------------------------------------------------

\* an invocation that has not started
IdleInvocation ==
    [pc |-> "idle", snapshotId |-> 0, dryRun |-> FALSE, plan |-> None, i |-> 0,
     itemsRolledBack |-> 0, itemsFailed |-> 0, errors |-> <<>>,
     attempted |-> <<>>, dispatched |-> <<>>, result |-> None]

\* the RollbackCommandResult of a return before the plan is executed
EarlyResult(success, error, plan) ==
    [success |-> success, error |-> error, plan |-> plan,
     warnings |-> IF plan = None THEN None ELSE Some(plan[1].warnings),
     result |-> None]

Returned(snapshotId, dryRun, r) ==
    [IdleInvocation EXCEPT !.pc = "done", !.snapshotId = snapshotId,
                           !.dryRun = dryRun, !.result = Some(r)]

\* afterPlan that executes the plan of a dry run
afterPlan_AlwaysRuns(snapshotId, dryRun, plan) ==
    [IdleInvocation EXCEPT !.pc = "loop", !.snapshotId = snapshotId,
                           !.dryRun = dryRun, !.plan = plan, !.i = 1]

\* with a plan in hand: a dry run returns it, otherwise the loop starts
afterPlan(snapshotId, dryRun, plan) ==
    IF dryRun
    THEN Returned(snapshotId, dryRun, EarlyResult(TRUE, "", plan))
    ELSE [IdleInvocation EXCEPT !.pc = "loop", !.snapshotId = snapshotId,
                                !.dryRun = dryRun, !.plan = plan, !.i = 1]

\* the statements of rollbackCommand up to the for loop
rollbackCommand(d, token, snapshotId, dryRun) ==
    LET plan == getRollbackPlan(d, snapshotId)
        snapshot == getSnapshot(d, snapshotId)
    IN  IF ~token
        THEN Returned(snapshotId, dryRun,
                      EarlyResult(FALSE, "Authentication required", None))
        ELSE IF plan = None
        THEN IF snapshot = None
             THEN Returned(snapshotId, dryRun,
                           EarlyResult(FALSE, "Snapshot not found", None))
             ELSE IF snapshot[1].status # "active"
             THEN Returned(snapshotId, dryRun,
                           EarlyResult(FALSE, "Snapshot already rolled back", None))
             ELSE Returned(snapshotId, dryRun,
                           EarlyResult(FALSE, "Cannot create rollback plan", None))
        ELSE afterPlan(snapshotId, dryRun, plan)

RollbackStart(p) ==
    \E snapshotId \in SnapIds, dryRun \in BOOLEAN :
        /\ rb[p].pc \in {"idle", "done"}
        /\ rb' = [rb EXCEPT ![p] = rollbackCommand(db, authToken, snapshotId, dryRun)]
        /\ UNCHANGED <<now, db, nextId, ret, authToken, calls>>

\* Succeeded that forgets to count the action
Succeeded_Uncounted(r) ==
    [r EXCEPT !.pc = "loop", !.i = @ + 1]

\* the action counted as rolled back, the loop moves on
Succeeded(r) ==
    [r EXCEPT !.pc = "loop", !.i = @ + 1, !.itemsRolledBack = @ + 1]

\* Failed that leaves the loop at the first failure
Failed_Abort(r, error) ==
    [r EXCEPT !.pc = "loop", !.i = Len(r.plan[1].actions) + 1,
              !.itemsFailed = @ + 1, !.errors = Append(@, error)]

\* the action counted as failed with its message, the loop moves on
Failed(r, error) ==
    [r EXCEPT !.pc = "loop", !.i = @ + 1, !.itemsFailed = @ + 1,
              !.errors = Append(@, error)]

\* buildUpdateUrl joins params.tags: a tags value that is no array throws
BuildThrows(action) ==
    /\ action.action = "restore"
    /\ action.data # None
    /\ "tags" \in DOMAIN action.data[1]

\* the actions that reach executeUrl
Dispatches(action) ==
    \/ action.action = "cancel"
    \/ action.action = "restore" /\ action.data # None /\ ~BuildThrows(action)

\* revertStatus that passes over an item that was open
revertStatus_SkipsOpen(me, action) ==
    IF action.data[1].previousStatus = "open"
    THEN [me EXCEPT !.pc = "loop", !.i = @ + 1]
    ELSE Failed(me, [error |-> "Failed to rollback", thingsId |-> action.thingsId])

\* revertStatus that counts the item as reverted when it was not open
revertStatus_RevertsOthers(me, action) ==
    IF action.data[1].previousStatus = "open"
    THEN Failed(me, [error |-> "Cannot revert status", thingsId |-> action.thingsId])
    ELSE Succeeded(me)

\* the 'revert-status' case of the switch and the check of the result that
\* follows it: an item that was open gets its own message, any other one
\* leaves result undefined; no command is built
revertStatus(me, action) ==
    IF action.data[1].previousStatus = "open"
    THEN Failed(me, [error |-> "Cannot revert status", thingsId |-> action.thingsId])
    ELSE Failed(me, [error |-> "Failed to rollback", thingsId |-> action.thingsId])

\* one iteration of the for loop up to the point where it awaits the
\* external command or ends without one
RollbackAction(p) ==
    /\ rb[p].pc = "loop"
    /\ rb[p].i <= Len(rb[p].plan[1].actions)
    /\ LET action == rb[p].plan[1].actions[rb[p].i]
           me == [rb[p] EXCEPT !.attempted = Append(@, rb[p].i)]
       IN  IF action.action = "revert-status"
           THEN /\ rb' = [rb EXCEPT ![p] = revertStatus(me, action)]
                /\ calls' = calls
           ELSE IF BuildThrows(action)
           THEN /\ rb' = [rb EXCEPT ![p] =
                    Failed(me, [error |-> "thrown", thingsId |-> action.thingsId])]
                /\ calls' = calls
           ELSE IF ~Dispatches(action)
           THEN /\ rb' = [rb EXCEPT ![p] =
                    Failed(me, [error |-> "Failed to rollback",
                                thingsId |-> action.thingsId])]
                /\ calls' = calls
           ELSE IF ~canAcquire(calls, now, MaxCalls, WindowMs)
           THEN /\ rb' = [rb EXCEPT ![p] =
                    Failed(me, [error |-> "Rate limit exceeded",
                                thingsId |-> action.thingsId])]
                /\ calls' = cleanup(calls, now, WindowMs)
           ELSE /\ rb' = [rb EXCEPT ![p] =
                    [me EXCEPT !.pc = "await", !.dispatched = Append(@, rb[p].i)]]
                /\ calls' = acquire(calls, now, WindowMs)
    /\ UNCHANGED <<now, db, nextId, ret, authToken>>

\* the external command ends: exit code 0, or a failure executeUrl reports
RollbackAwait(p) ==
    \E exitOk \in BOOLEAN :
        /\ rb[p].pc = "await"
        /\ rb' = [rb EXCEPT ![p] =
                    IF exitOk THEN Succeeded(rb[p])
                    ELSE Failed(rb[p], [error |-> "Command failed",
                                        thingsId |-> rb[p].plan[1].actions[rb[p].i].thingsId])]
        /\ UNCHANGED <<now, db, nextId, ret, authToken, calls>>

\* finalStatus that leaves the snapshot active when no action succeeded
finalStatus_ActiveOnTotalFailure(itemsRolledBack, itemsFailed) ==
    IF itemsFailed = 0 THEN "rolled-back"
    ELSE IF itemsRolledBack > 0 THEN "partial-rollback"
    ELSE "active"

\* finalStatus that leaves the snapshot active when nothing was attempted
finalStatus_ActiveWhenNothingDone(itemsRolledBack, itemsFailed) ==
    IF itemsRolledBack = 0 /\ itemsFailed = 0 THEN "active"
    ELSE IF itemsFailed = 0 THEN "rolled-back" ELSE "partial-rollback"

\* the status the snapshot is given after the loop
finalStatus(itemsRolledBack, itemsFailed) ==
    IF itemsFailed = 0 THEN "rolled-back" ELSE "partial-rollback"

\* after the loop: the status is written and the result returned
RollbackFinalize(p) ==
    /\ rb[p].pc = "loop"
    /\ rb[p].i > Len(rb[p].plan[1].actions)
    /\ db' = markRolledBack(db, rb[p].snapshotId,
                            finalStatus(rb[p].itemsRolledBack, rb[p].itemsFailed), now)
    /\ rb' = [rb EXCEPT ![p] =
                [@ EXCEPT !.pc = "done",
                          !.result = Some([success |-> rb[p].itemsFailed = 0,
                                           error |-> "",
                                           plan |-> rb[p].plan,
                                           warnings |-> Some(rb[p].plan[1].warnings),
                                           result |-> Some([success |-> rb[p].itemsFailed = 0,
                                                            itemsRolledBack |-> rb[p].itemsRolledBack,
                                                            itemsFailed |-> rb[p].itemsFailed,
                                                            errors |-> rb[p].errors])])]]
    /\ UNCHANGED <<now, nextId, ret, authToken, calls>>

\* ------------------------------------------------------------------------
\* Commands that add and update items
\* ------------------------------------------------------------------------

\* what a command returns (its ExecutionResult), with the database and the
\* limiter it leaves behind and the id of the snapshot it recorded, if any
CommandResult(d, r, snapshotId) ==
    [db |-> d, calls |-> r.calls, spawned |-> r.spawned, result |-> r.result,
     snapshotId |-> snapshotId]

\* the result of a command that finds no auth token
AuthRequired(d, c) ==
    CommandResult(d, ExecutionResult(c, FALSE, FALSE, "Authentication required", FALSE),
                  None)

\* addCommand(title, {dryRun}): the to-do is sent through ThingsClient.addTodo,
\* then the snapshot is recorded when the command was really sent and
\* succeeded; an error of the snapshot manager is swallowed
addCommand(d, c, id, t, title, dryRun, exit) ==
    LET r == executeUrl(c, t, TRUE, dryRun, FALSE, exit)
        s == createAddSnapshot(d, id, [thingsId |-> "pending", itemType |-> "to-do",
                                       title |-> title], t)
    IN  IF ~dryRun /\ r.result.success
        THEN CommandResult(s.db, r, IF s.threw THEN None ELSE Some(id))
        ELSE CommandResult(d, r, None)

\* addProjectCommand(title, {dryRun})
addProjectCommand(d, c, id, t, title, dryRun, exit) ==
    LET r == executeUrl(c, t, TRUE, dryRun, FALSE, exit)
        s == createAddProjectSnapshot(d, id, [thingsId |-> "pending",
                                              itemType |-> "project",
                                              title |-> title], t)
    IN  IF ~dryRun /\ r.result.success
        THEN CommandResult(s.db, r, IF s.threw THEN None ELSE Some(id))
        ELSE CommandResult(d, r, None)

\* updateCommand(itemId, {dryRun, ...}): the update is sent through
\* ThingsClient.updateTodo and its result returned
updateCommand(d, c, token, t, dryRun, exit) ==
    IF ~token THEN AuthRequired(d, c)
    ELSE CommandResult(d, executeUrl(c, t, TRUE, dryRun, FALSE, exit), None)

\* updateProjectCommand(projectId, {dryRun, ...})
updateProjectCommand(d, c, token, t, dryRun, exit) ==
    IF ~token THEN AuthRequired(d, c)
    ELSE CommandResult(d, executeUrl(c, t, TRUE, dryRun, FALSE, exit), None)

\* a command runs to its end
Command(op, dryRun, r) ==
    /\ nextId <= MaxSnapshots
    /\ TotalRows(db) < MaxRows
    /\ db' = r.db
    /\ calls' = r.calls
    /\ nextId' = IF r.db = db THEN nextId ELSE nextId + 1
    /\ ret' = [op |-> op, threw |-> FALSE, changes |-> 0,
               args |-> [dryRun |-> dryRun], result |-> r.result,
               spawned |-> r.spawned, snapshotId |-> r.snapshotId]
    /\ UNCHANGED <<now, authToken, rb>>

AddCommand ==
    \E dryRun \in BOOLEAN, exit \in {"ok", "failed", "threw"} :
        Command("addCommand", dryRun,
                addCommand(db, calls, nextId, now, "New Task", dryRun, exit))

AddProjectCommand ==
    \E dryRun \in BOOLEAN, exit \in {"ok", "failed", "threw"} :
        Command("addProjectCommand", dryRun,
                addProjectCommand(db, calls, nextId, now, "New Task", dryRun, exit))

UpdateCommand ==
    \E dryRun \in BOOLEAN, exit \in {"ok", "failed", "threw"} :
        Command("updateCommand", dryRun,
                updateCommand(db, calls, authToken, now, dryRun, exit))

UpdateProjectCommand ==
    \E dryRun \in BOOLEAN, exit \in {"ok", "failed", "threw"} :
        Command("updateProjectCommand", dryRun,
                updateProjectCommand(db, calls, authToken, now, dryRun, exit))

\* ------------------------------------------------------------------------
\* Specifications
\* ------------------------------------------------------------------------

\* a fresh database, an empty limiter, no rollback in progress
Init ==
    /\ now = 0
    /\ db = EmptyDb
    /\ nextId = 1
    /\ ret = NoRet
    /\ authToken = TRUE
    /\ calls = <<>>
    /\ rb = [p \in Procs |-> IdleInvocation]

\* the calls of the snapshot ledger API (store and manager), in any order
Next ==
    \/ CreateAddSnapshot
    \/ CreateAddProjectSnapshot
    \/ CreateUpdateSnapshot
    \/ CreateStatusChangeSnapshot
    \/ CreateBulkSnapshot
    \/ AddSnapshotCreated
    \/ AddSnapshotModified
    \/ AddSnapshotStatus
    \/ UpdateSnapshotStatus
    \/ MarkRolledBack
    \/ DeleteSnapshot
    \/ PurgeOldSnapshots
    \/ Tick

Spec == Init /\ [][Next]_vars

\* the session may or may not have an auth token configured
InitRollback ==
    /\ now = 0
    /\ db = EmptyDb
    /\ nextId = 1
    /\ ret = NoRet
    /\ authToken \in BOOLEAN
    /\ calls = <<>>
    /\ rb = [p \in Procs |-> IdleInvocation]

\* snapshots recorded by the manager and rollbackCommand invocations made
\* one after another, each returning before the next call starts
NextRollback ==
    \/ Quiescent /\ CreateAddSnapshot
    \/ Quiescent /\ CreateAddProjectSnapshot
    \/ Quiescent /\ CreateUpdateSnapshot
    \/ Quiescent /\ CreateStatusChangeSnapshot
    \/ Quiescent /\ CreateBulkSnapshot
    \/ Quiescent /\ RollbackStart(1)
    \/ RollbackAction(1)
    \/ RollbackAwait(1)
    \/ RollbackFinalize(1)
    \/ Tick

SpecRollback == InitRollback /\ [][NextRollback]_vars

\* snapshots recorded by the manager, marked as rolled back, and read back
NextRead ==
    \/ CreateAddSnapshot
    \/ CreateUpdateSnapshot
    \/ CreateStatusChangeSnapshot
    \/ CreateBulkSnapshot
    \/ MarkRolledBack
    \/ GetRollbackPlan
    \/ ListSnapshots
    \/ Tick

SpecRead == Init /\ [][NextRead]_vars

\* Date.now() is a positive number of milliseconds
InitLimiter ==
    /\ now = 1
    /\ db = EmptyDb
    /\ nextId = 1
    /\ ret = NoRet
    /\ authToken = TRUE
    /\ calls = <<>>
    /\ rb = [p \in Procs |-> IdleInvocation]

\* calls of the methods of one limiter, in any order, while time passes
NextLimiter ==
    \/ Acquire
    \/ CanAcquire
    \/ GetWaitTime
    \/ GetCount
    \/ GetRemainingCapacity
    \/ Advance

SpecLimiter == InitLimiter /\ [][NextLimiter]_vars

\* commands that go through executeUrl, the snapshots of added items, and
\* rollbacks of them, all on the one limiter of the process
NextExecute ==
    \/ Quiescent /\ ExecuteUrl
    \/ Quiescent /\ CreateAddSnapshot
    \/ Quiescent /\ RollbackStart(1)
    \/ RollbackAction(1)
    \/ RollbackAwait(1)
    \/ RollbackFinalize(1)
    \/ Tick

SpecExecute == Init /\ [][NextExecute]_vars

\* the add and update commands of the CLI, one after another
NextCommands ==
    \/ AddCommand
    \/ AddProjectCommand
    \/ UpdateCommand
    \/ UpdateProjectCommand
    \/ Tick

SpecCommands == InitRollback /\ [][NextCommands]_vars

\* the event loop runs one invocation at a time: p may take a step when no
\* other invocation is between two awaits
Turn(p) == \A q \in Procs \ {p} : rb[q].pc # "loop"

\* rollbackCommand invocations that overlap: each one is suspended while it
\* awaits a dispatch, and another one may start or resume in the meantime
NextOverlap ==
    \/ Quiescent /\ CreateAddSnapshot
    \/ Quiescent /\ CreateUpdateSnapshot
    \/ \E p \in Procs : Turn(p) /\ RollbackStart(p)
    \/ \E p \in Procs : Turn(p) /\ RollbackAction(p)
    \/ \E p \in Procs : Turn(p) /\ RollbackAwait(p)
    \/ \E p \in Procs : Turn(p) /\ RollbackFinalize(p)
    \/ Tick

SpecOverlap == Init /\ [][NextOverlap]_vars

\* no acquireAsync call has started
InitAsync ==
    /\ now = 1
    /\ db = EmptyDb
    /\ nextId = 1
    /\ ret = NoRet
    /\ authToken = TRUE
    /\ calls = <<>>
    /\ rb = [p \in Procs |-> IdleAcquire]

\* callers of acquireAsync on one limiter, while time passes
NextAsync ==
    \/ \E p \in Procs : AcquireAsync(p)
    \/ \E p \in Procs : AcquireAsyncWake(p)
    \/ Advance

SpecAsync == InitAsync /\ [][NextAsync]_vars

\* ------------------------------------------------------------------------
\* Properties of the snapshot ledger (specification Spec)
\* ------------------------------------------------------------------------

StatusOf(d, id) == d.snapshots[id].status

\* C1: once a snapshot's status is not 'active', no call of the store or the
\* manager changes it, neither back to 'active' nor to another terminal value.
C1_StatusMonotone ==
    [][\A id \in Ids(db) \cap Ids(db') :
          StatusOf(db, id) # "active" => StatusOf(db', id) = StatusOf(db, id)]_vars

CreateOps ==
    {"createAddSnapshot", "createAddProjectSnapshot", "createUpdateSnapshot",
     "createStatusChangeSnapshot", "createBulkSnapshot"}

ChildRowsOf(d, id) ==
    Len(RowsOf(d.snapshot_created, id)) + Len(RowsOf(d.snapshot_modified, id))
        + Len(RowsOf(d.snapshot_status, id))

\* C6: snapshot creation through the manager is all-or-nothing: when a create
\* call throws because a child insert failed, the store holds neither the
\* parent row of that call nor any of its child rows.
C6_CreateAllOrNothing ==
    (ret.op \in CreateOps /\ ret.threw) =>
        /\ (nextId - 1) \notin Ids(db)
        /\ ChildRowsOf(db, nextId - 1) = 0

NoOrphans(d) ==
    /\ \A k \in 1..Len(d.snapshot_created) : d.snapshot_created[k].snapshot_id \in Ids(d)
    /\ \A k \in 1..Len(d.snapshot_modified) : d.snapshot_modified[k].snapshot_id \in Ids(d)
    /\ \A k \in 1..Len(d.snapshot_status) : d.snapshot_status[k].snapshot_id \in Ids(d)

\* C7: every child row references an existing snapshot, and a deleteSnapshot
\* that removes snapshot id with N child rows removes exactly the parent and
\* those N rows: afterwards getSnapshotDetails(id) is null, no child table
\* holds a row of id, and every other row is still there.
C7_CascadeIntegrity ==
    [][/\ NoOrphans(db')
       /\ (ret'.op = "deleteSnapshot" /\ db' # db) =>
            \E id \in Ids(db) :
                /\ Ids(db') = Ids(db) \ {id}
                /\ getSnapshotDetails(db', id) = None
                /\ ChildRowsOf(db', id) = 0
                /\ TotalRows(db') = TotalRows(db) - ChildRowsOf(db, id)
                /\ \A other \in Ids(db') :
                      getSnapshotDetails(db', other) = getSnapshotDetails(db, other)]_vars

\* a deleteSnapshot removed a snapshot while another snapshot kept its child row
C7_Witness ==
    /\ ret.op = "deleteSnapshot"
    /\ ret.changes = 1
    /\ Cardinality(Ids(db)) = 1
    /\ TotalRows(db) = 1

\* C8: getRollbackPlan(id) is null exactly when no snapshot has that id or
\* the snapshot's status is not 'active'.
C8_PlanNullIffNotActive ==
    \A id \in SnapIds :
        (getRollbackPlan(db, id) = None) <=>
            (id \notin Ids(db) \/ StatusOf(db, id) # "active")

\* markRolledBack has just made a snapshot 'partial-rollback' and it has no
\* plan, while another snapshot is active and has one
C8_Witness ==
    /\ ret.op = "markRolledBack"
    /\ \E id \in Ids(db) :
          StatusOf(db, id) = "partial-rollback" /\ getRollbackPlan(db, id) = None
    /\ \E id \in Ids(db) :
          StatusOf(db, id) = "active" /\ getRollbackPlan(db, id) # None

\* the previous-state object the caller supplied for an item of Things
SuppliedFor(thingsId) ==
    (CHOOSE item \in ModifiedInputs : item.thingsId = thingsId).previousState

\* the properties of an object that hold a value other than undefined
Defined(obj) == [f \in { g \in DOMAIN obj : obj[g] # UNDEF } |-> obj[f]]

NotCanceled(rows) == SelectSeq(rows, LAMBDA r : r.new_status # "canceled")
Canceled(rows) == SelectSeq(rows, LAMBDA r : r.new_status = "canceled")

\* the plan of an active snapshot, action by action, with the data of the
\* restore actions given by restored(_)
PlanMatches(d, id, restored(_)) ==
    LET plan == getRollbackPlan(d, id)[1]
        c == RowsOf(d.snapshot_created, id)
        m == RowsOf(d.snapshot_modified, id)
        s == NotCanceled(RowsOf(d.snapshot_status, id))
    IN  /\ Len(plan.actions) = Len(c) + Len(m) + Len(s)
        /\ \A k \in 1..Len(c) :
              /\ plan.actions[k].action = "cancel"
              /\ plan.actions[k].thingsId = c[k].things_id
        /\ \A k \in 1..Len(m) :
              /\ plan.actions[Len(c) + k].action = "restore"
              /\ plan.actions[Len(c) + k].thingsId = m[k].things_id
              /\ plan.actions[Len(c) + k].data = Some(restored(m[k].things_id))
        /\ \A k \in 1..Len(s) :
              /\ plan.actions[Len(c) + Len(m) + k].action = "revert-status"
              /\ plan.actions[Len(c) + Len(m) + k].thingsId = s[k].things_id
        /\ Len(plan.warnings) = Len(Canceled(RowsOf(d.snapshot_status, id)))

Active(d) == { id \in Ids(d) : StatusOf(d, id) = "active" }

\* C9 as stated: the plan of an active snapshot holds one 'cancel' per
\* created item, one 'restore' per modified item whose data equals the
\* previous-state object supplied at creation, one 'revert-status' per status
\* change not to 'canceled', and one warning per status change to 'canceled'.
C9_PlanRestoresSupplied ==
    \A id \in Active(db) : PlanMatches(db, id, SuppliedFor)

SuppliedDefined(thingsId) == Defined(SuppliedFor(thingsId))

\* C9 as amended: the data of a 'restore' action is the supplied
\* previous-state object without the properties that held undefined.
C9_PlanRestoresDefined ==
    \A id \in Active(db) : PlanMatches(db, id, SuppliedDefined)

\* an active snapshot holds a modified item whose supplied previous state
\* had an undefined property, next to a status change to 'canceled'
C9_Witness ==
    \E id \in Active(db) :
        /\ \E k \in 1..Len(db.snapshot_modified) :
              /\ db.snapshot_modified[k].snapshot_id = id
              /\ SuppliedFor(db.snapshot_modified[k].things_id)
                    # SuppliedDefined(db.snapshot_modified[k].things_id)
        /\ Len(Canceled(RowsOf(db.snapshot_status, id))) = 1

\* C10 as stated: the number of actions in the plan of an active snapshot
\* equals len(createdItems) + len(modifiedItems) + len(statusChanges).
C10_ActionCountIsChildCount ==
    \A id \in Active(db) :
        Len(getRollbackPlan(db, id)[1].actions) = ChildRowsOf(db, id)

\* C10 as amended: the number of actions plus the number of warnings equals
\* that sum; the actions alone leave out the status changes to 'canceled'.
C10_ActionsPlusWarnings ==
    \A id \in Active(db) :
        LET plan == getRollbackPlan(db, id)[1]
        IN  /\ Len(plan.actions) + Len(plan.warnings) = ChildRowsOf(db, id)
            /\ Len(plan.warnings) = Len(Canceled(RowsOf(db.snapshot_status, id)))

\* an active snapshot with a created item and a status change to 'canceled'
C10_Witness ==
    \E id \in Active(db) :
        /\ Len(RowsOf(db.snapshot_created, id)) = 1
        /\ Len(Canceled(RowsOf(db.snapshot_status, id))) = 1
        /\ Len(getRollbackPlan(db, id)[1].actions) = 1

\* ------------------------------------------------------------------------
\* Properties of the rollback command (specification SpecRollback)
\* ------------------------------------------------------------------------

\* the step is the start of a rollbackCommand on snapshot id
Starts(id) ==
    /\ rb[1].pc \in {"idle", "done"}
    /\ rb'[1] # rb[1]
    /\ rb'[1].snapshotId = id

\* the invocation has returned the result of an executed plan
Executed(r) == r.pc = "done" /\ r.result[1].result # None

\* C2: once a rollbackCommand has finalized a snapshot, every later
\* invocation on it, dry-run or not, returns success=false with the 'already
\* rolled back' error, dispatches no command and leaves the status and
\* rolledBackAt unchanged; a missing id gets the 'not found' error instead.
C2_RollbackAtMostOnce ==
    [][\A id \in SnapIds :
          /\ (Starts(id) /\ id \in Ids(db) /\ StatusOf(db, id) # "active") =>
                /\ rb'[1].pc = "done"
                /\ rb'[1].result[1].success = FALSE
                /\ rb'[1].result[1].error = "Snapshot already rolled back"
                /\ rb'[1].dispatched = <<>>
                /\ calls' = calls
                /\ db' = db
          /\ (Starts(id) /\ authToken /\ id \notin Ids(db)) =>
                /\ rb'[1].pc = "done"
                /\ rb'[1].result[1].error = "Snapshot not found"]_vars

\* a dry-run invocation on a snapshot that ended 'partial-rollback' was refused
C2_Witness ==
    /\ rb[1].pc = "done"
    /\ rb[1].dryRun
    /\ rb[1].result[1].error = "Snapshot already rolled back"
    /\ StatusOf(db, rb[1].snapshotId) = "partial-rollback"

\* C3: after an executed rollback the snapshot is 'rolled-back' when every
\* action of the plan succeeded and 'partial-rollback' when at least one
\* failed, also when all of them failed; it is never left 'active'.
C3_FinalStatus ==
    Executed(rb[1]) =>
        /\ rb[1].snapshotId \in Ids(db)
        /\ StatusOf(db, rb[1].snapshotId) =
              IF rb[1].itemsRolledBack = Len(rb[1].plan[1].actions)
              THEN "rolled-back" ELSE "partial-rollback"

\* a rollback of a plan with two actions ended with both of them failed
C3_Witness ==
    /\ Executed(rb[1])
    /\ Len(rb[1].plan[1].actions) = MaxRows
    /\ rb[1].itemsRolledBack = 0
    /\ StatusOf(db, rb[1].snapshotId) = "partial-rollback"

\* C4: an executed rollback attempts every action of the plan exactly once
\* and in order, whatever failed before, and the status of the snapshot is
\* written only after the last action was attempted.
C4_AllActionsAttempted ==
    /\ rb[1].pc \in {"loop", "await"} =>
          /\ StatusOf(db, rb[1].snapshotId) = "active"
          /\ Len(rb[1].attempted) <= Len(rb[1].plan[1].actions)
    /\ Executed(rb[1]) =>
          rb[1].attempted = [k \in 1..Len(rb[1].plan[1].actions) |-> k]

\* the first action threw and the second was still dispatched and succeeded
C4_Witness ==
    /\ Executed(rb[1])
    /\ Len(rb[1].attempted) = 2
    /\ rb[1].errors = <<[error |-> "thrown",
                         thingsId |-> rb[1].plan[1].actions[1].thingsId]>>
    /\ rb[1].dispatched = <<2>>
    /\ rb[1].itemsRolledBack = 1

RolledBackAt(d, id) == d.snapshots[id].rolled_back_at

\* C12: in every state of the store rolledBackAt is non-null exactly when
\* the status is 'rolled-back' or 'partial-rollback'; it is null while the
\* status is 'active' or 'expired'.
C12_RolledBackAtIffTerminal ==
    \A id \in Ids(db) :
        (RolledBackAt(db, id) # None) <=>
            (StatusOf(db, id) \in {"rolled-back", "partial-rollback"})

\* one snapshot is 'expired' without a stamp next to one that is
\* 'partial-rollback' and was stamped after the clock advanced
C12_Witness ==
    /\ \E id \in Ids(db) :
          StatusOf(db, id) = "expired" /\ RolledBackAt(db, id) = None
    /\ \E id \in Ids(db) :
          StatusOf(db, id) = "partial-rollback" /\ RolledBackAt(db, id) = Some(MaxTime)

\* C13: rolledBackAt is written once: after it was stamped no later call
\* (updateSnapshotStatus, markRolledBack) changes or clears its value.
C13_RolledBackAtWrittenOnce ==
    [][\A id \in Ids(db) \cap Ids(db') :
          RolledBackAt(db, id) # None =>
              RolledBackAt(db', id) = RolledBackAt(db, id)]_vars

C11_PlanIsPure ==
    [][/\ (ret'.op = "getRollbackPlan" /\ ret' # ret) => db' = db
       /\ (/\ ret.op = "getRollbackPlan"
           /\ ret'.op = "getRollbackPlan"
           /\ ret'.args = ret.args) =>
              /\ ret'.result = ret.result
              /\ db' = db]_vars

\* a plan with a restore action followed by a revert-status action was
\* returned for an active snapshot, and the store still yields that plan
C11_Witness ==
    /\ ret.op = "getRollbackPlan"
    /\ ret.result # None
    /\ Len(ret.result[1].actions) = 2
    /\ ret.result[1].actions[1].action = "restore"
    /\ ret.result[1].actions[2].action = "revert-status"
    /\ getRollbackPlan(db, ret.args.snapshotId) = ret.result

\* the ids of a set of snapshots, the one created last first
RECURSIVE LatestFirst(_)
LatestFirst(S) ==
    IF S = {} THEN <<>>
    ELSE LET latest == CHOOSE i \in S : \A j \in S : j <= i
         IN  <<latest>> \o LatestFirst(S \ {latest})

\* C20: listSnapshots returns the snapshots that match the status filter,
\* a snapshot created later always before one created earlier, without the
\* first offset entries of that order and with at most limit entries.
C20_ListMostRecentFirst ==
    ret.op = "listSnapshots" =>
        LET matching == { i \in Ids(db) :
                            ret.args.status = NULL \/ StatusOf(db, i) = ret.args.status }
            ordered == LatestFirst(matching)
            expected == SubSeq(ordered, ret.args.offset + 1,
                               IF ret.args.offset + ret.args.limit < Len(ordered)
                               THEN ret.args.offset + ret.args.limit ELSE Len(ordered))
        IN  [k \in 1..Len(ret.result) |-> ret.result[k].id] = expected

\* ------------------------------------------------------------------------
\* Properties of the rate limiter (specification SpecLimiter)
\* ------------------------------------------------------------------------

\* the number of recorded timestamps inside the window (t - windowMs, t]
InWindow(c, t) ==
    Cardinality({ k \in 1..Len(c) : c[k] > t - TestWindowMs /\ c[k] <= t })

QueryOps == {"canAcquire", "getWaitTime", "getCount", "getRemainingCapacity"}

\* C14: whatever methods are called and however the clock advances, the
\* number of recorded timestamps inside the trailing window never exceeds
\* maxCalls; canAcquire() returns true exactly when that number is below
\* maxCalls, and it consumes no budget, like the other queries.
C14_WindowNeverOverBudget ==
    [][/\ InWindow(calls, now) <= TestMaxCalls
       /\ InWindow(calls', now') <= TestMaxCalls
       /\ (ret'.op = "canAcquire" /\ now' = now) =>
             ret'.result.allowed = (InWindow(calls, now) < TestMaxCalls)
       /\ (ret'.op \in QueryOps /\ now' = now) =>
             InWindow(calls', now) = InWindow(calls, now)]_vars

\* canAcquire() has answered false on a limiter that holds maxCalls calls
C14_Witness ==
    /\ ret.op = "canAcquire"
    /\ ret.result.allowed = FALSE
    /\ InWindow(calls, now) = TestMaxCalls

\* C15: acquire() on a limiter that holds maxCalls calls inside the window
\* raises the capacity error and records nothing: count, remaining capacity
\* and wait time are what they were; below the budget it raises nothing and
\* the count inside the window grows by exactly one.
C15_AcquireAllOrError ==
    [][(ret'.op = "acquire" /\ now' = now) =>
          IF InWindow(calls, now) >= TestMaxCalls
          THEN /\ ret'.threw
               /\ ret'.result.error = "Rate limit exceeded"
               /\ getCount(calls', now, TestWindowMs) = getCount(calls, now, TestWindowMs)
               /\ getRemainingCapacity(calls', now, TestMaxCalls, TestWindowMs)
                     = getRemainingCapacity(calls, now, TestMaxCalls, TestWindowMs)
               /\ getWaitTime(calls', now, TestMaxCalls, TestWindowMs)
                     = getWaitTime(calls, now, TestMaxCalls, TestWindowMs)
          ELSE /\ ~ret'.threw
               /\ InWindow(calls', now) = InWindow(calls, now) + 1
               /\ getCount(calls', now, TestWindowMs)
                     = getCount(calls, now, TestWindowMs) + 1]_vars

\* an acquire() was refused on a full limiter whose oldest call is one
\* clock unit old
C15_Witness ==
    /\ ret.op = "acquire"
    /\ ret.threw
    /\ Len(calls) = TestMaxCalls
    /\ calls[1] = now - 1
    /\ getWaitTime(calls, now, TestMaxCalls, TestWindowMs) = TestWindowMs - 1

\* C17: once windowMs has passed since the last recorded call, with no new
\* acquire, a limiter that was full is back in its initial state:
\* canAcquire() is true, getCount() is 0, getWaitTime() is 0,
\* getRemainingCapacity() is maxCalls and acquire() succeeds.
C17_ResetAfterWindow ==
    (calls # <<>> /\ now - calls[Len(calls)] >= TestWindowMs) =>
        /\ cleanup(calls, now, TestWindowMs) = <<>>
        /\ canAcquire(calls, now, TestMaxCalls, TestWindowMs)
        /\ getCount(calls, now, TestWindowMs) = 0
        /\ getWaitTime(calls, now, TestMaxCalls, TestWindowMs) = 0
        /\ getRemainingCapacity(calls, now, TestMaxCalls, TestWindowMs) = TestMaxCalls
        /\ ~RateLimiter_acquire(calls, now, TestMaxCalls, TestWindowMs).threw

\* the limiter was filled, refused an acquire(), and exactly windowMs has
\* passed since its last recorded call
C17_Witness ==
    /\ ret.op = "acquire"
    /\ ret.threw
    /\ Len(calls) = TestMaxCalls
    /\ now - calls[Len(calls)] = TestWindowMs

\* C18: getWaitTime() is 0 below the budget; at the budget it is the oldest
\* timestamp inside the window + windowMs - now, which is more than 0 and at
\* most windowMs, and after that much time without a new acquire
\* canAcquire() is true.
C18_WaitTime ==
    LET kept == SelectSeq(calls, LAMBDA ts : ts > now - TestWindowMs)
        wait == getWaitTime(calls, now, TestMaxCalls, TestWindowMs)
    IN  /\ Len(kept) < TestMaxCalls => wait = 0
        /\ Len(kept) >= TestMaxCalls =>
              /\ wait = kept[1] + TestWindowMs - now
              /\ wait > 0
              /\ wait <= TestWindowMs
              /\ canAcquire(calls, now + wait, TestMaxCalls, TestWindowMs)
        /\ ret.op = "getWaitTime" => ret.result.ms \in 0..TestWindowMs

\* getWaitTime() has returned less than the window on a full limiter
C18_Witness ==
    /\ ret.op = "getWaitTime"
    /\ ret.result.ms = TestWindowMs - 1
    /\ Len(calls) = TestMaxCalls
    /\ getWaitTime(calls, now, TestMaxCalls, TestWindowMs) = ret.result.ms

\* ------------------------------------------------------------------------
\* Properties of the dispatch path (specification SpecExecute)
\* ------------------------------------------------------------------------

\* the step is an executeUrl call
ExecuteUrlStep ==
    /\ ret'.op = "executeUrl"
    /\ now' = now
    /\ (ret' # ret \/ calls' # calls)

\* the step starts an external command, from executeUrl called directly or
\* for a compensating action of a rollback
CommandIssued ==
    \/ ExecuteUrlStep /\ ret'.spawned
    \/ rb'[1].pc = "await" /\ rb[1].pc # "await"

\* C16: every external command executeUrl issues, for an original command or
\* for a compensation, comes right after a successful acquire on the
\* process-wide limiter in the same call; with the budget used up executeUrl
\* returns success=false with a rate-limit error, without throwing and
\* without issuing the command.
C16_EveryCommandAcquires ==
    [][/\ CommandIssued =>
             /\ canAcquire(calls, now, MaxCalls, WindowMs)
             /\ calls' = Append(cleanup(calls, now, WindowMs), now)
       /\ (/\ ExecuteUrlStep
           /\ ret'.args.valid
           /\ ~canAcquire(calls, now, MaxCalls, WindowMs)) =>
             /\ ~ret'.threw
             /\ ~ret'.spawned
             /\ ret'.result.success = FALSE
             /\ ret'.result.error = "Rate limit exceeded"]_vars

\* ------------------------------------------------------------------------
\* Properties of the child inserts (specification Spec)
\* ------------------------------------------------------------------------

AddOps == {"addSnapshotCreated", "addSnapshotModified", "addSnapshotStatus"}

\* every child insert for a snapshot id without a parent row throws and
\* leaves the database d as it is
OrphanInsertsThrow(d) ==
    \A id \in SnapIds \ Ids(d) :
        /\ \A item \in CreatedInputs : addSnapshotCreated(d, id, item) = Threw(d)
        /\ \A item \in ModifiedInputs : addSnapshotModified(d, id, item) = Threw(d)
        /\ \A item \in StatusInputs : addSnapshotStatus(d, id, item) = Threw(d)

\* C21: addSnapshotCreated, addSnapshotModified and addSnapshotStatus called
\* with a snapshotId that has no parent snapshot fail with an error that
\* reaches the caller and insert no row: the store is left unchanged.
C21_OrphanInsertFails ==
    [][/\ OrphanInsertsThrow(db)
       /\ OrphanInsertsThrow(db')
       /\ (ret'.op \in AddOps /\ (ret' # ret \/ db' # db)) =>
             IF ret'.threw THEN db' = db
             ELSE /\ TotalRows(db') = TotalRows(db) + 1
                  /\ NoOrphans(db')
                  /\ Ids(db') = Ids(db)]_vars

\* addSnapshotModified was refused for an id without a parent row while
\* another snapshot exists, and no child row was written
C21_Witness ==
    /\ ret.op = "addSnapshotModified"
    /\ ret.threw
    /\ Cardinality(Ids(db)) = 1
    /\ TotalRows(db) = 0

\* ------------------------------------------------------------------------
\* Properties of the add and update commands (specification SpecCommands)
\* ------------------------------------------------------------------------

CommandOps == {"addCommand", "addProjectCommand", "updateCommand", "updateProjectCommand"}

CommandStep ==
    /\ ret'.op \in CommandOps
    /\ (ret' # ret \/ db' # db \/ calls' # calls)

\* C22: every create/update operation creates a snapshot for rollback: each
\* non-dry-run add, add-project, update and update-project command whose
\* dispatch succeeds adds exactly one new snapshot with status 'active' to
\* the store, and a dry run or a failed dispatch adds none.
C22_EveryCommandSnapshots ==
    [][CommandStep =>
          IF ~ret'.args.dryRun /\ ret'.result.success
          THEN /\ Ids(db) \subseteq Ids(db')
               /\ Cardinality(Ids(db') \ Ids(db)) = 1
               /\ \A id \in Ids(db') \ Ids(db) : StatusOf(db', id) = "active"
          ELSE db' = db]_vars

\* ------------------------------------------------------------------------
\* Properties of the rollback result (specification SpecRollback)
\* ------------------------------------------------------------------------

\* the RollbackResult of an executed rollback and the actions of its plan
ResultOf(r) == r.result[1].result[1]
ActionsOf(r) == r.plan[1].actions

\* C23: after a non-dry-run rollbackCommand has executed a plan, the reported
\* itemsRolledBack + itemsFailed equals the number of actions of the plan,
\* the errors list holds exactly one message per failed action, and success
\* is true exactly when itemsFailed is 0, which is exactly when the snapshot
\* was marked 'rolled-back'.
C23_ResultAccounting ==
    Executed(rb[1]) =>
        /\ ResultOf(rb[1]).itemsRolledBack + ResultOf(rb[1]).itemsFailed
              = Len(ActionsOf(rb[1]))
        /\ Len(ResultOf(rb[1]).errors) = ResultOf(rb[1]).itemsFailed
        /\ \A k \in 1..Len(ResultOf(rb[1]).errors) :
              \E a \in 1..Len(ActionsOf(rb[1])) :
                  ResultOf(rb[1]).errors[k].thingsId = ActionsOf(rb[1])[a].thingsId
        /\ ResultOf(rb[1]).success <=> ResultOf(rb[1]).itemsFailed = 0
        /\ rb[1].result[1].success <=> ResultOf(rb[1]).itemsFailed = 0
        /\ ResultOf(rb[1]).success <=>
              StatusOf(db, rb[1].snapshotId) = "rolled-back"

\* of two actions one was rolled back and the other failed with one message
C23_Witness ==
    /\ Executed(rb[1])
    /\ ResultOf(rb[1]).itemsRolledBack = 1
    /\ ResultOf(rb[1]).itemsFailed = 1
    /\ Len(ResultOf(rb[1]).errors) = 1
    /\ ~ResultOf(rb[1]).success
    /\ StatusOf(db, rb[1].snapshotId) = "partial-rollback"

\* the loop of invocation 1 is at a 'revert-status' action of an item that
\* was open, and the step runs that iteration
RevertsOpen ==
    /\ rb[1].pc = "loop"
    /\ rb[1].i <= Len(ActionsOf(rb[1]))
    /\ ActionsOf(rb[1])[rb[1].i].action = "revert-status"
    /\ ActionsOf(rb[1])[rb[1].i].data[1].previousStatus = "open"
    /\ rb'[1] # rb[1]

\* C24: during rollback execution a 'revert-status' action whose
\* previousStatus is 'open' is never dispatched and never silently skipped:
\* it increases itemsFailed by exactly one and adds exactly one descriptive
\* error message naming the item, and the remaining actions are still
\* attempted.
C24_OpenRevertIsFailure ==
    [][RevertsOpen =>
          /\ rb'[1].itemsFailed = rb[1].itemsFailed + 1
          /\ rb'[1].itemsRolledBack = rb[1].itemsRolledBack
          /\ rb'[1].errors =
                Append(rb[1].errors,
                       [error |-> "Cannot revert status",
                        thingsId |-> ActionsOf(rb[1])[rb[1].i].thingsId])
          /\ rb'[1].dispatched = rb[1].dispatched
          /\ calls' = calls
          /\ db' = db
          /\ rb'[1].pc = "loop"
          /\ rb'[1].i = rb[1].i + 1
          /\ rb'[1].attempted = Append(rb[1].attempted, rb[1].i)]_vars

\* the first action was the revert of an open item; it failed with its
\* message and the second action was attempted after it
C24_Witness ==
    /\ Executed(rb[1])
    /\ Len(ActionsOf(rb[1])) = 2
    /\ ActionsOf(rb[1])[1].data = Some([previousStatus |-> "open"])
    /\ rb[1].errors[1] = [error |-> "Cannot revert status",
                          thingsId |-> ActionsOf(rb[1])[1].thingsId]
    /\ rb[1].attempted = <<1, 2>>
    /\ rb[1].dispatched = <<>>
    /\ rb[1].itemsFailed = 2

\* the number of 'revert-status' actions among the first n of a plan
RECURSIVE Reverts(_, _)
Reverts(actions, n) ==
    IF n = 0 THEN 0
    ELSE Reverts(actions, n - 1)
            + (IF actions[n].action = "revert-status" THEN 1 ELSE 0)

\* C28: every 'revert-status' action of a plan is counted as failed and
\* causes no command to be dispatched, whatever its previousStatus;
\* consequently a non-dry-run rollback of a snapshot that contains a status
\* change to a value other than 'canceled' always finalizes the snapshot as
\* 'partial-rollback' and never as 'rolled-back'.
C28_RevertStatusAlwaysFails ==
    /\ rb[1].pc \in {"loop", "await"} =>
          /\ \A k \in 1..Len(rb[1].dispatched) :
                ActionsOf(rb[1])[rb[1].dispatched[k]].action # "revert-status"
          /\ rb[1].pc = "loop" =>
                rb[1].itemsFailed >= Reverts(ActionsOf(rb[1]), rb[1].i - 1)
    /\ Executed(rb[1]) =>
          /\ \A k \in 1..Len(rb[1].dispatched) :
                ActionsOf(rb[1])[rb[1].dispatched[k]].action # "revert-status"
          /\ ResultOf(rb[1]).itemsFailed
                >= Reverts(ActionsOf(rb[1]), Len(ActionsOf(rb[1])))
          /\ (\E k \in 1..Len(db.snapshot_status) :
                /\ db.snapshot_status[k].snapshot_id = rb[1].snapshotId
                /\ db.snapshot_status[k].new_status # "canceled") =>
                   /\ StatusOf(db, rb[1].snapshotId) = "partial-rollback"
                   /\ ~rb[1].result[1].success

\* the created item was cancelled, the reopened item could not be reverted
C28_Witness ==
    /\ Executed(rb[1])
    /\ Len(ActionsOf(rb[1])) = 2
    /\ ActionsOf(rb[1])[1].action = "cancel"
    /\ ActionsOf(rb[1])[2].action = "revert-status"
    /\ ActionsOf(rb[1])[2].data = Some([previousStatus |-> "completed"])
    /\ rb[1].dispatched = <<1>>
    /\ ResultOf(rb[1]).itemsRolledBack = 1
    /\ ResultOf(rb[1]).itemsFailed = 1
    /\ StatusOf(db, rb[1].snapshotId) = "partial-rollback"

\* C29: a non-dry-run rollbackCommand on an active snapshot whose plan has
\* zero actions (a snapshot holding only status changes to 'canceled', or no
\* child rows at all) dispatches nothing, returns success=true together with
\* the plan's warnings, and finalizes the snapshot as 'rolled-back' with
\* rolledBackAt set, so that it cannot be rolled back again.
C29_EmptyPlanRollsBack ==
    /\ (rb[1].pc = "loop" /\ ActionsOf(rb[1]) = <<>>) =>
          /\ rb[1].dispatched = <<>>
          /\ rb[1].i > Len(ActionsOf(rb[1]))
    /\ (Executed(rb[1]) /\ ActionsOf(rb[1]) = <<>>) =>
          /\ rb[1].dispatched = <<>>
          /\ rb[1].attempted = <<>>
          /\ rb[1].result[1].success
          /\ ResultOf(rb[1]).success
          /\ ResultOf(rb[1]).errors = <<>>
          /\ rb[1].result[1].warnings = Some(rb[1].plan[1].warnings)
          /\ StatusOf(db, rb[1].snapshotId) = "rolled-back"
          /\ RolledBackAt(db, rb[1].snapshotId) # None
          /\ getRollbackPlan(db, rb[1].snapshotId) = None

\* a snapshot holding only a cancellation was rolled back with its warning
C29_Witness ==
    /\ Executed(rb[1])
    /\ ActionsOf(rb[1]) = <<>>
    /\ Len(rb[1].result[1].warnings[1]) = 1
    /\ ChildRowsOf(db, rb[1].snapshotId) = 1
    /\ StatusOf(db, rb[1].snapshotId) = "rolled-back"

\* the rank of an action's category in the order of a plan
Rank(action) ==
    CASE action.action = "cancel" -> 1
      [] action.action = "restore" -> 2
      [] OTHER -> 3

\* the ids of the items of the actions of one category, in plan order
IdsOf(actions, kind) ==
    LET sel == SelectSeq(actions, LAMBDA a : a.action = kind)
    IN  [k \in 1..Len(sel) |-> sel[k].thingsId]

\* the ids of the items of the rows of snapshot id, in insertion order
RowIds(rows, id) ==
    LET sel == RowsOf(rows, id)
    IN  [k \in 1..Len(sel) |-> sel[k].things_id]

\* the ids of the items whose status change is not a cancellation
RevertedRowIds(rows, id) ==
    LET sel == SelectSeq(RowsOf(rows, id), LAMBDA r : r.new_status # "canceled")
    IN  [k \in 1..Len(sel) |-> sel[k].things_id]

\* C25: during one rollback, compensating commands are dispatched one at a
\* time in plan order (all 'cancel' actions in insertion order of the created
\* items, then all 'restore' actions in insertion order of the modified
\* items, then the 'revert-status' actions), and the dispatch for the next
\* action is not started until the previous one has returned its result: at
\* no time are two dispatches of the same rollback in flight.
C25_OneDispatchAtATime ==
    /\ [](rb[1].pc \in {"loop", "await"} \/ Executed(rb[1]) =>
            /\ \A j, k \in 1..Len(ActionsOf(rb[1])) :
                  j < k => Rank(ActionsOf(rb[1])[j]) <= Rank(ActionsOf(rb[1])[k])
            /\ IdsOf(ActionsOf(rb[1]), "cancel")
                  = RowIds(db.snapshot_created, rb[1].snapshotId)
            /\ IdsOf(ActionsOf(rb[1]), "restore")
                  = RowIds(db.snapshot_modified, rb[1].snapshotId)
            /\ IdsOf(ActionsOf(rb[1]), "revert-status")
                  = RevertedRowIds(db.snapshot_status, rb[1].snapshotId)
            /\ \A j, k \in 1..Len(rb[1].dispatched) :
                  j < k => rb[1].dispatched[j] < rb[1].dispatched[k]
            /\ \A k \in 1..Len(rb[1].dispatched) :
                  \/ rb[1].dispatched[k] < rb[1].i
                  \/ /\ rb[1].pc = "await"
                     /\ k = Len(rb[1].dispatched)
                     /\ rb[1].dispatched[k] = rb[1].i)
    /\ [][/\ rb'[1].dispatched # rb[1].dispatched /\ rb'[1].dispatched # <<>> =>
                /\ rb[1].pc = "loop"
                /\ rb'[1].pc = "await"
                /\ rb'[1].dispatched = Append(rb[1].dispatched, rb[1].i)
          /\ rb[1].pc = "await" =>
                /\ rb'[1].dispatched = rb[1].dispatched
                /\ rb'[1].pc \in {"await", "loop"}
                /\ rb'[1].pc = "loop" => rb'[1].i = rb[1].i + 1]_vars

\* a cancel and then a restore were dispatched, the second after the first
\* had returned
C25_Witness ==
    /\ Executed(rb[1])
    /\ rb[1].dispatched = <<1, 2>>
    /\ ActionsOf(rb[1])[1].action = "cancel"
    /\ ActionsOf(rb[1])[2].action = "restore"
    /\ ResultOf(rb[1]).itemsRolledBack = 2

\* ------------------------------------------------------------------------
\* Properties of overlapping rollbacks (specification SpecOverlap)
\* ------------------------------------------------------------------------

\* invocation p has run, or is running, the plan of snapshot id for real
RunsPlan(p, id) ==
    /\ rb[p].snapshotId = id
    /\ ~rb[p].dryRun
    /\ rb[p].plan # None
    /\ rb[p].pc \in {"loop", "await"} \/ Executed(rb[p])

\* the step writes the status of snapshot id
WritesStatus(id) ==
    /\ id \in Ids(db)
    /\ \E p \in Procs : rb[p].pc = "loop" /\ rb'[p].pc = "done" /\ rb[p].snapshotId = id
    /\ db'.snapshots[id] # db.snapshots[id] \/ StatusOf(db, id) # "active"

\* C26: rollback is at-most-once also when invocations overlap: if a second
\* non-dry-run rollbackCommand on the same active snapshot starts while a
\* first one is suspended awaiting a dispatch, each compensating action of
\* the snapshot is still dispatched at most once in total and the snapshot's
\* status is written at most once.
C26_OverlapAtMostOnce ==
    /\ [](\A p, q \in Procs : \A id \in SnapIds :
            (p # q /\ RunsPlan(p, id) /\ RunsPlan(q, id)) =>
                \A j \in 1..Len(rb[p].dispatched), k \in 1..Len(rb[q].dispatched) :
                    rb[p].dispatched[j] # rb[q].dispatched[k])
    /\ [][\A id \in SnapIds :
            WritesStatus(id) => StatusOf(db, id) = "active"]_vars

\* ------------------------------------------------------------------------
\* Properties of acquireAsync (specification SpecAsync)
\* ------------------------------------------------------------------------

\* C27: acquireAsync waits until a call can be made and then acquires: every
\* acquireAsync call records exactly one call timestamp and never raises the
\* capacity-exceeded error, for any number of callers waiting concurrently
\* on the same exhausted limiter, and the in-window count never exceeds
\* maxCalls while they are served.
C27_AcquireAsyncNeverFails ==
    /\ \A p \in Procs :
          rb[p].pc = "done" => ~rb[p].threw /\ rb[p].recorded = 1
    /\ InWindow(calls, now) <= TestMaxCalls

\* ------------------------------------------------------------------------
\* Properties of dry runs of executeUrl (specification SpecExecute)
\* ------------------------------------------------------------------------

\* C30: executeUrl called with dryRun=true (and skipRateLimit unset) on a
\* valid things:/// URL never issues an external command, yet it consults the
\* process-wide limiter like a real call: it records exactly one call
\* timestamp when capacity remains and returns a rate-limit failure when the
\* budget is exhausted; a URL that does not start with 'things:///' is
\* rejected before the limiter is touched and records nothing.
C30_DryRunUsesLimiter ==
    [][(ExecuteUrlStep /\ rb' = rb) =>
          /\ (ret'.args.valid /\ ret'.args.dryRun /\ ~ret'.args.skipRateLimit) =>
                /\ ~ret'.spawned
                /\ ~ret'.threw
                /\ IF canAcquire(calls, now, MaxCalls, WindowMs)
                   THEN /\ calls' = Append(cleanup(calls, now, WindowMs), now)
                        /\ ret'.result.success
                        /\ ret'.result.dryRun
                   ELSE /\ calls' = cleanup(calls, now, WindowMs)
                        /\ ~ret'.result.success
                        /\ ret'.result.error = "Rate limit exceeded"
          /\ ~ret'.args.valid =>
                /\ calls' = calls
                /\ ~ret'.spawned
                /\ ~ret'.result.success
                /\ ret'.result.error = "Invalid URL scheme"]_vars

\* a dry run succeeded without a command and left its timestamp in the
\* limiter
C30_Witness ==
    /\ ret.op = "executeUrl"
    /\ ret.args = [valid |-> TRUE, dryRun |-> TRUE, skipRateLimit |-> FALSE]
    /\ ret.result.success
    /\ ret.result.dryRun
    /\ ~ret.spawned
    /\ calls = <<now>>

====
